---- MODULE Spec2Model ----
(***************************************************************************)
(* Model of src/utils/job.ts: the abstract Job (callback registry, error   *)
(* and success chokepoints, exponential-backoff poller) and its three      *)
(* variants TranscriptJob, UploadJob and IndexJob.                         *)
(*                                                                         *)
(* One job instance is modelled; its variant is chosen in Init.  Every     *)
(* call of start() on it opens a "run": a record in the bag runs (runs     *)
(* carry no name, and two runs in the same position are two copies of one  *)
(* record).  An action is one turn of the JavaScript event loop: the       *)
(* synchronous code between two awaits / timer callbacks.  For an IndexJob *)
(* each run owns the nested TranscriptJob that start() constructs.         *)
(* The history variable ev records what the last turn did: the response it *)
(* handled, the calls it made and how its async function settled.          *)
(***************************************************************************)
EXTENDS Integers, Sequences, FiniteSets, Bags, TLC

VARIABLES
    kind,                 \* the variant of the instance: which start/beforeSuccess it has
    on,                   \* Job._on: the registered success and error callbacks
    currentDelaySeconds,  \* Job.currentDelaySeconds of the instance
    runs,                 \* one record per call of start() on the instance
    ev                    \* history: what the last turn of the event loop did

vars == <<kind, on, currentDelaySeconds, runs, ev>>

----------------------------------------------------------------------------
(* Bounds of the model *)

\* how many times start() is called on the instance
MaxStarts == 2

(* Program constants *)

\* private readonly _delayMultiplier = 2
DelayMultiplier == 2
\* private readonly _maxDelay = 500000
MaxDelay == 500000
\* private currentDelaySeconds = 2000
InitialDelay == 2000

----------------------------------------------------------------------------
(* Values *)

Kinds == {"transcript", "upload", "index"}

\* a callback slot of _on is empty or holds one of two caller functions
NoHandler == "none"
Handlers == {"f", "g"}

\* the callback endpoint a server hands out (an opaque string)
Urls == {"/async/1"}

\* ResponseStatus: the two pending markers (every other value is terminal)
in_progress == "in_progress"
processing == "processing"

\* messages a failure envelope may carry
Messages == {"x", "y"}

\* error values: the class decides `instanceof`; cause is <<>> or <<original>>
Err(cls, msg, cause) == [cls |-> cls, msg |-> msg, cause |-> cause]
VideodbError(msg) == Err("VideodbError", msg, <<>>)
RecognizedClasses == {"AuthenticationError", "InvalidRequestError", "VideodbError"}
\* what the transport may reject with
TransportErrors ==
    {Err(c, "request failed", <<>>) : c \in RecognizedClasses \cup {"Error"}}
\* what a throwing caller-supplied callback raises, and what property access
\* on undefined raises
CallbackError == Err("Error", "thrown by callback", <<>>)
TypeError == Err("TypeError", "cannot read undefined", <<>>)

\* wire payloads: snake_case keys; media tells an audio from a video payload
Undefined == [keys |-> "undefined", media |-> "undefined"]
Audio == [keys |-> "snake_case", media |-> "audio"]
Video == [keys |-> "snake_case", media |-> "video"]
WirePayloads == {Audio, Video, Undefined}

\* what the status GET resolves to: a status, the optional envelope
\* `response` (<<>> when absent) and the top-level data
Envelopes ==
    {[success |-> FALSE, message |-> m, data |-> Undefined] : m \in Messages}
    \cup {[success |-> TRUE, message |-> "ok", data |-> d] : d \in {Video, Undefined}}
\* a bare response carries its payload in data; an enveloped one carries it
\* in response.data, beside a top-level data that is not the payload
PendingResponses ==
    {[status |-> s, response |-> <<>>, data |-> Undefined] :
        s \in {in_progress, processing}}
    \cup {[status |-> s, response |-> <<e>>, data |-> Audio] :
            s \in {in_progress, processing},
            e \in {[success |-> FALSE, message |-> "x", data |-> Undefined]}}
\* a terminal response is one with any other status: "done", or "failed"
\* on a bare response that still carries data
TerminalResponses ==
    {[status |-> "done", response |-> <<>>, data |-> d] : d \in {Audio, Undefined}}
    \cup {[status |-> "done", response |-> <<e>>, data |-> Audio] : e \in Envelopes}
    \cup {[status |-> "failed", response |-> <<>>, data |-> Audio]}
PollResponses == PendingResponses \cup TerminalResponses

\* what the index POST resolves to (NoDataResponse)
IndexResponses ==
    {[keys |-> "snake_case", success |-> TRUE, message |-> "ok"]}
    \cup {[keys |-> "snake_case", success |-> FALSE, message |-> m] : m \in Messages}

----------------------------------------------------------------------------
(* Pure helpers *)

\* fromSnakeToCamel: keys are re-cased; a non-object is returned as it is
FromSnakeToCamel(data) ==
    IF data = Undefined THEN data ELSE [data EXCEPT !.keys = "camelCase"]

\* isMediaAudio
IsMediaAudio(data) == data.media = "audio"

\* the three beforeSuccess hooks: <<>> thrown and a value, or an exception
Returned(v) == [thrown |-> <<>>, value |-> <<v>>]
Thrown(e) == [thrown |-> <<e>>, value |-> <<>>]

TranscriptBeforeSuccess(data) == Returned(data)

UploadBeforeSuccess(data) ==
    IF data = Undefined
    THEN Thrown(TypeError)
    ELSE IF IsMediaAudio(data)
         THEN Returned([obj |-> "Audio", base |-> data])
         ELSE Returned([obj |-> "Video", base |-> data])

IndexBeforeSuccess(data) ==
    IF data.success
    THEN Returned([success |-> data.success])
    ELSE Returned([success |-> data.success, message |-> data.message])

BeforeSuccess(k, data) ==
    CASE k = "transcript" -> TranscriptBeforeSuccess(data)
      [] k = "upload" -> UploadBeforeSuccess(data)
      [] k = "index" -> IndexBeforeSuccess(data)

\* a linear backoff in place of the geometric one
IncrementDelayLinear(d) == d + InitialDelay

\* _incrementDelay
IncrementDelay(d) == DelayMultiplier * d

\* a pending check that knows one marker only
IsPendingInProgressOnly(status) == status = in_progress

\* the pending check of _initiateBackoff
IsPending(status) == status = in_progress \/ status = processing

\* the ceiling compared with the delay of the next round
TimedOutEarly(d) == DelayMultiplier * d >= MaxDelay

\* a ceiling twice as high
TimedOutLate(d) == d >= 2 * MaxDelay

\* the ceiling check of _initiateBackoff
TimedOut(d) == d >= MaxDelay

\* a chokepoint that wraps whatever it is given
ClassifyWrapsAll(err) == Err("VideodbError", "Unknown Error", <<err>>)

\* the instanceof test of _handleError and the value the callback is given
Recognized(err) == err.cls \in RecognizedClasses
Classify(err) ==
    IF Recognized(err) THEN err ELSE Err("VideodbError", "Unknown Error", <<err>>)

\* the envelope tests of _initiateBackoff
HasEnvelope(res) == res.response # <<>>
EnvelopeFailedTopLevel(res) == FALSE  \* res.success, which no response has
EnvelopeFailed(res) == res.response[1].success = FALSE
EnvelopeMessage(res) == res.response[1].message
\* the payload handed to _handleSuccess
SuccessPayload(res) ==
    IF HasEnvelope(res) THEN res.response[1].data ELSE res.data

----------------------------------------------------------------------------
(* Runs *)

\* the run a call of start() opens: the initial request is in flight
NewRun ==
    [pc |-> "startReq",       \* startReq, pollReq, timer, indexPost or done
     url |-> "",              \* callbackUrl of the poll chain
     wait |-> 0,              \* the pending timer's delay
     nDelay |-> InitialDelay, \* currentDelaySeconds of the nested TranscriptJob
     gets |-> 0,              \* status GETs issued
     posts |-> 0,             \* index POSTs issued
     timers |-> 0,            \* timers scheduled
     pend |-> 0,              \* pending observations
     timeouts |-> 0,          \* 'Job timed out' errors raised
     succN |-> 0,             \* calls of the registered success callback
     errN |-> 0]              \* calls of the registered error callback

\* the job whose poller a run drives is the instance itself, or for an
\* IndexJob the nested TranscriptJob of that run
PollerDelay(r) == IF kind = "index" THEN r.nDelay ELSE currentDelaySeconds

\* a turn of the event loop working on run r: the run, the exception now
\* propagating (<<>> when none) and the calls made so far
Turn(r) ==
    [r |-> r,
     exc |-> <<>>,
     he |-> <<>>,        \* arguments of the instance's _handleError
     errCb |-> <<>>,     \* calls of the registered error callback
     bs |-> <<>>,        \* arguments of the instance's beforeSuccess
     succCb |-> <<>>,    \* calls of the registered success callback
     logged |-> 0,       \* outcomes only logged: no callback registered
     nErrCb |-> <<>>,    \* arguments of the nested job's error callback
     nSuccCb |-> <<>>]   \* arguments of the nested job's success callback

Call(by, arg) == [by |-> by, arg |-> arg]

----------------------------------------------------------------------------
(* Job._handleError and Job._handleSuccess of the instance.  eThrows and   *)
(* sThrows say whether the caller's callback raises when it is called.     *)

HandleError(t, err, eThrows) ==
    LET t1 == [t EXCEPT !.he = Append(@, err), !.r.pc = "done"]
    IN  IF on.error # NoHandler
        THEN [t1 EXCEPT !.r.errN = @ + 1,
                        !.errCb = Append(@, Call(on.error, Classify(err))),
                        !.exc = IF eThrows THEN <<CallbackError>> ELSE <<>>]
        ELSE [t1 EXCEPT !.logged = @ + 1, !.exc = <<>>]

HandleSuccess(t, data, sThrows) ==
    LET transformedResponse == FromSnakeToCamel(data)
        finalData == BeforeSuccess(kind, transformedResponse)
        t1 == [t EXCEPT !.bs = Append(@, transformedResponse), !.r.pc = "done"]
    IN  IF finalData.thrown # <<>>
        THEN [t1 EXCEPT !.exc = finalData.thrown]
        ELSE IF on.success # NoHandler
             THEN [t1 EXCEPT !.r.succN = @ + 1,
                             !.succCb = Append(@, Call(on.success, finalData.value[1])),
                             !.exc = IF sThrows THEN <<CallbackError>> ELSE <<>>]
             ELSE [t1 EXCEPT !.logged = @ + 1, !.exc = <<>>]

(* The nested TranscriptJob of an IndexJob run.  Its callbacks are the two *)
(* IndexJob.start registers: the error callback forwards to the IndexJob's *)
(* _handleError; the success callback is an async function, which issues   *)
(* the index POST and returns a promise without ever throwing.             *)

\* an error callback that only logs
NestedOnErrorDropped(t, err, eThrows) ==
    [t EXCEPT !.nErrCb = Append(@, err), !.r.pc = "done", !.exc = <<>>]

NestedOnError(t, err, eThrows) ==
    HandleError([t EXCEPT !.nErrCb = Append(@, err)], err, eThrows)

NestedOnSuccess(t, data) ==
    [t EXCEPT !.nSuccCb = Append(@, data),
              !.r.posts = @ + 1, !.r.pc = "indexPost", !.exc = <<>>]

\* a nested job whose failure also triggers the index POST
NestedFailurePosts(t, err, eThrows) == NestedOnSuccess(t, Undefined)

\* _handleError of the nested job: its error callback is registered
NestedHandleError(t, err, eThrows) == NestedOnError(t, Classify(err), eThrows)

\* _handleSuccess of the nested job: its success callback is registered
NestedHandleSuccess(t, data) ==
    LET finalData == TranscriptBeforeSuccess(FromSnakeToCamel(data))
    IN  IF finalData.thrown # <<>>
        THEN [t EXCEPT !.exc = finalData.thrown]
        ELSE NestedOnSuccess(t, finalData.value[1])

\* `this._handleError` / `this._handleSuccess` inside TranscriptJob.start,
\* UploadJob.start and _initiateBackoff: `this` is the job that polls
ThisHandleError(t, err, eThrows) ==
    IF kind = "index" THEN NestedHandleError(t, err, eThrows)
                      ELSE HandleError(t, err, eThrows)

ThisHandleSuccess(t, data, sThrows) ==
    IF kind = "index" THEN NestedHandleSuccess(t, data)
                      ELSE HandleSuccess(t, data, sThrows)

\* a body with no try around it: the exception goes on propagating
CatchNothing(t, eThrows) == t

\* `catch (err) { this._handleError(err) }` around a body that ended as t
Catch(t, eThrows) ==
    IF t.exc # <<>> THEN ThisHandleError(t, t.exc[1], eThrows) ELSE t

\* the catch of the IndexJob's own success callback (lines 270-272)
IndexCatch(t, eThrows) ==
    IF t.exc # <<>> THEN HandleError(t, t.exc[1], eThrows) ELSE t

\* the first synchronous part of _initiateBackoff: the status GET is issued
InitiateBackoff(t, callbackUrl) ==
    [t EXCEPT !.r.pc = "pollReq", !.r.url = callbackUrl,
              !.r.gets = @ + 1, !.r.wait = 0]

\* the rest of _initiateBackoff's try block, the status GET resolved to res
Backoff(t, res, sThrows) ==
    IF IsPending(res.status)
    THEN IF TimedOut(PollerDelay(t.r))
         THEN [t EXCEPT !.r.pend = @ + 1, !.r.timeouts = @ + 1,
                        !.exc = <<VideodbError("Job timed out")>>]
         ELSE [t EXCEPT !.r.pend = @ + 1, !.r.pc = "timer",
                        !.r.wait = PollerDelay(t.r),
                        !.r.timers = @ + 1]
    ELSE IF HasEnvelope(res) /\ EnvelopeFailed(res)
         THEN [t EXCEPT !.exc = <<VideodbError(EnvelopeMessage(res))>>]
         ELSE ThisHandleSuccess(t, SuccessPayload(res), sThrows)

----------------------------------------------------------------------------
(* What the initial request of start() resolves to: res.data, which may    *)
(* carry an output_url (<<>> when the key is absent) or be undefined.      *)

StartResponses ==
    {[output_url |-> <<u>>, data |-> Video] : u \in Urls}
    \cup {[output_url |-> <<>>, data |-> d] : d \in WirePayloads}

\* the upload POST resolves to a SyncJobResponse: its data, when there is
\* one, carries the output_url
UploadResponses ==
    {res \in StartResponses : res.output_url # <<>> \/ res.data = Undefined}

\* the path handed to _initiateBackoff: res.data.output_url
OutputUrl(res) == res.output_url[1]

\* whether a callback raises is a choice only where one is registered
MayThrow(option) == IF on[option] = NoHandler THEN {FALSE} ELSE BOOLEAN

----------------------------------------------------------------------------
(* The history variable *)

\* what is kept of a run that has ended: its outcome, not its poll chain
Retired(r) ==
    IF r.pc = "done"
    THEN [r EXCEPT !.url = "", !.wait = 0, !.nDelay = 0,
                   !.gets = 0, !.timers = 0, !.pend = 0]
    ELSE r

\* a turn that handled no response and made no call
Quiet(op) ==
    [op |-> op, reg |-> <<>>, run |-> <<>>, res |-> <<>>, ceiling |-> FALSE,
     gets |-> 0, timers |-> 0, posts |-> 0,
     he |-> <<>>, errCb |-> <<>>, bs |-> <<>>, succCb |-> <<>>, logged |-> 0,
     nErrCb |-> <<>>, nSuccCb |-> <<>>, rejected |-> FALSE, unhandled |-> FALSE]

\* the turn op on run r ended as t.  An async function whose body ends with
\* an exception propagating rejects its promise: start()'s promise is the
\* caller's (awaited = TRUE); the promises of _initiateBackoff and of the
\* IndexJob's success callback are dropped by their callers.
Event(op, r, t, res, awaited) ==
    [op |-> op,
     reg |-> <<>>,                               \* no registration in the turn
     run |-> <<Retired(t.r)>>,                   \* the run as the turn left it
     res |-> res,                                \* the response handled
     ceiling |-> PollerDelay(r) >= MaxDelay,     \* the delay the turn found
     gets |-> t.r.gets - r.gets,                 \* status GETs issued
     timers |-> t.r.timers - r.timers,           \* timers scheduled
     posts |-> t.r.posts - r.posts,              \* index POSTs issued
     he |-> t.he, errCb |-> t.errCb, bs |-> t.bs, succCb |-> t.succCb,
     logged |-> t.logged, nErrCb |-> t.nErrCb, nSuccCb |-> t.nSuccCb,
     rejected |-> awaited /\ t.exc # <<>>,
     unhandled |-> ~awaited /\ t.exc # <<>>]

\* run r of the bag becomes t.r
Replace(r, t) == (runs (-) SetToBag({r})) (+) SetToBag({Retired(t.r)})

----------------------------------------------------------------------------
(* Actions *)

Init ==
    /\ kind \in Kinds
    /\ on = [success |-> NoHandler, error |-> NoHandler]
    /\ currentDelaySeconds = InitialDelay
    /\ runs = EmptyBag
    /\ ev = Quiet("new")

\* a registry that keeps the first callback registered for an option
OnKeepsFirst(option, method) ==
    /\ on' = IF on[option] = NoHandler THEN [on EXCEPT ![option] = method] ELSE on
    /\ ev' = [Quiet("on") EXCEPT !.reg = <<option, method, on[option]>>]
    /\ UNCHANGED <<kind, currentDelaySeconds, runs>>

\* a registry that replays a finished run's outcome to a late callback
OnReplays(option, method) ==
    /\ on' = [on EXCEPT ![option] = method]
    /\ ev' = [Quiet("on") EXCEPT
                 !.reg = <<option, method, on[option]>>,
                 !.succCb = IF option = "success" /\ on[option] = NoHandler
                                 /\ \E r \in BagToSet(runs) : r.pc = "done"
                            THEN <<Call(method, Undefined)>> ELSE <<>>]
    /\ UNCHANGED <<kind, currentDelaySeconds, runs>>

\* Job.on: the slot of the option is overwritten.  The history keeps the
\* call: the option, the callback given and the callback it replaced.
On(option, method) ==
    /\ on' = [on EXCEPT ![option] = method]
    /\ ev' = [Quiet("on") EXCEPT !.reg = <<option, method, on[option]>>]
    /\ UNCHANGED <<kind, currentDelaySeconds, runs>>

\* a start() that begins a fresh backoff
TranscriptJobStartResets ==
    /\ kind = "transcript"
    /\ BagCardinality(runs) < MaxStarts
    /\ runs' = runs (+) SetToBag({NewRun})
    /\ ev' = Quiet("start")
    /\ currentDelaySeconds' = InitialDelay
    /\ UNCHANGED <<kind, on>>

\* TranscriptJob.start up to its await: the transcription GET is issued
TranscriptJobStart ==
    /\ kind = "transcript"
    /\ BagCardinality(runs) < MaxStarts
    /\ runs' = runs (+) SetToBag({NewRun})
    /\ ev' = Quiet("start")
    /\ UNCHANGED <<kind, on, currentDelaySeconds>>

\* UploadJob.start up to its await: the upload POST is issued
UploadJobStart ==
    /\ kind = "upload"
    /\ BagCardinality(runs) < MaxStarts
    /\ runs' = runs (+) SetToBag({NewRun})
    /\ ev' = Quiet("start")
    /\ UNCHANGED <<kind, on, currentDelaySeconds>>

\* IndexJob.start up to its await: a new TranscriptJob is built, its two
\* callbacks are registered and its start() issues the transcription GET
IndexJobStart ==
    /\ kind = "index"
    /\ BagCardinality(runs) < MaxStarts
    /\ runs' = runs (+) SetToBag({NewRun})
    /\ ev' = Quiet("start")
    /\ UNCHANGED <<kind, on, currentDelaySeconds>>

\* a TranscriptJob.start that takes every response for the transcript
TranscriptStartIgnoresUrl(r) ==
    /\ kind \in {"transcript", "index"}
    /\ r.pc = "startReq"
    /\ \E res \in StartResponses, sThrows \in MayThrow("success"), eThrows \in MayThrow("error") :
         LET t == Catch(ThisHandleSuccess(Turn(r), res.data, sThrows), eThrows)
         IN  /\ runs' = Replace(r, t)
             /\ ev' = Event("startResolved", r, t, <<res>>, TRUE)
    /\ UNCHANGED <<kind, on, currentDelaySeconds>>

\* TranscriptJob.start after its await (of the instance, or of the nested
\* job of an IndexJob, whose start() promise IndexJob.start awaits)
TranscriptStartRejected(r) ==
    /\ kind \in {"transcript", "index"}
    /\ r.pc = "startReq"
    /\ \E err \in TransportErrors, eThrows \in MayThrow("error") :
         LET t == ThisHandleError(Turn(r), err, eThrows)
         IN  /\ runs' = Replace(r, t)
             /\ ev' = Event("startRejected", r, t, <<>>, TRUE)
    /\ UNCHANGED <<kind, on, currentDelaySeconds>>

TranscriptStartResolved(r) ==
    /\ kind \in {"transcript", "index"}
    /\ r.pc = "startReq"
    /\ \E res \in StartResponses, sThrows \in MayThrow("success"), eThrows \in MayThrow("error") :
         LET body ==
               IF res.data = Undefined
               THEN [Turn(r) EXCEPT !.exc = <<TypeError>>]
               ELSE IF res.output_url # <<>>
                    THEN InitiateBackoff(Turn(r), OutputUrl(res))
                    ELSE ThisHandleSuccess(Turn(r), res.data, sThrows)
             t == Catch(body, eThrows)
         IN  /\ runs' = Replace(r, t)
             /\ ev' = Event("startResolved", r, t, <<res>>, TRUE)
    /\ UNCHANGED <<kind, on, currentDelaySeconds>>

\* UploadJob.start after its await
UploadStartRejected(r) ==
    /\ kind = "upload"
    /\ r.pc = "startReq"
    /\ \E err \in TransportErrors, eThrows \in MayThrow("error") :
         LET t == ThisHandleError(Turn(r), err, eThrows)
         IN  /\ runs' = Replace(r, t)
             /\ ev' = Event("startRejected", r, t, <<>>, TRUE)
    /\ UNCHANGED <<kind, on, currentDelaySeconds>>

\* an UploadJob.start that takes the POST's response for the final payload
UploadStartShortcut(r) ==
    /\ kind = "upload"
    /\ r.pc = "startReq"
    /\ \E res \in UploadResponses, eThrows \in MayThrow("error") :
         LET t == Catch(ThisHandleSuccess(Turn(r), res.data, FALSE), eThrows)
         IN  /\ runs' = Replace(r, t)
             /\ ev' = Event("startResolved", r, t, <<res>>, TRUE)
    /\ UNCHANGED <<kind, on, currentDelaySeconds>>

UploadStartResolved(r) ==
    /\ kind = "upload"
    /\ r.pc = "startReq"
    /\ \E res \in UploadResponses, eThrows \in MayThrow("error") :
         LET body ==
               IF res.data = Undefined
               THEN [Turn(r) EXCEPT !.exc = <<TypeError>>]
               ELSE InitiateBackoff(Turn(r), OutputUrl(res))
             t == Catch(body, eThrows)
         IN  /\ runs' = Replace(r, t)
             /\ ev' = Event("startResolved", r, t, <<res>>, TRUE)
    /\ UNCHANGED <<kind, on, currentDelaySeconds>>

\* _initiateBackoff after its await: the status GET rejected
PollRejected(r) ==
    /\ r.pc = "pollReq"
    /\ \E err \in TransportErrors, eThrows \in MayThrow("error") :
         LET t == ThisHandleError(Turn(r), err, eThrows)
         IN  /\ runs' = Replace(r, t)
             /\ ev' = Event("pollRejected", r, t, <<>>, FALSE)
    /\ UNCHANGED <<kind, on, currentDelaySeconds>>

\* _initiateBackoff after its await: the status GET resolved
PollResolved(r) ==
    /\ r.pc = "pollReq"
    /\ \E res \in PollResponses, sThrows \in MayThrow("success"), eThrows \in MayThrow("error") :
         LET t == Catch(Backoff(Turn(r), res, sThrows), eThrows)
         IN  /\ runs' = Replace(r, t)
             /\ ev' = Event("pollResolved", r, t, <<res>>, FALSE)
    /\ UNCHANGED <<kind, on, currentDelaySeconds>>

\* the timer callback: the next status GET is issued, then the delay of the
\* polling job is multiplied
TimerFired(r) ==
    /\ r.pc = "timer"
    /\ LET t0 == InitiateBackoff(Turn(r), r.url)
           t == [t0 EXCEPT !.r.nDelay =
                    IF kind = "index" THEN IncrementDelay(@) ELSE @]
       IN  /\ runs' = Replace(r, t)
           /\ ev' = Event("timerFired", r, t, <<>>, FALSE)
    /\ currentDelaySeconds' =
         IF kind = "index" THEN currentDelaySeconds
                           ELSE IncrementDelay(currentDelaySeconds)
    /\ UNCHANGED <<kind, on>>

\* the IndexJob's success callback on the nested job, after its await
IndexPostRejected(r) ==
    /\ r.pc = "indexPost"
    /\ \E err \in TransportErrors, eThrows \in MayThrow("error") :
         LET t == HandleError(Turn(r), err, eThrows)
         IN  /\ runs' = Replace(r, t)
             /\ ev' = Event("postRejected", r, t, <<>>, FALSE)
    /\ UNCHANGED <<kind, on, currentDelaySeconds>>

IndexPostResolved(r) ==
    /\ r.pc = "indexPost"
    /\ \E res \in IndexResponses, sThrows \in MayThrow("success"), eThrows \in MayThrow("error") :
         LET t == IndexCatch(HandleSuccess(Turn(r), res, sThrows), eThrows)
         IN  /\ runs' = Replace(r, t)
             /\ ev' = Event("postResolved", r, t, <<res>>, FALSE)
    /\ UNCHANGED <<kind, on, currentDelaySeconds>>

Next ==
    \/ \E option \in {"success", "error"}, method \in Handlers : On(option, method)
    \/ TranscriptJobStart
    \/ UploadJobStart
    \/ IndexJobStart
    \/ \E r \in BagToSet(runs) : TranscriptStartRejected(r)
    \/ \E r \in BagToSet(runs) : TranscriptStartResolved(r)
    \/ \E r \in BagToSet(runs) : UploadStartRejected(r)
    \/ \E r \in BagToSet(runs) : UploadStartResolved(r)
    \/ \E r \in BagToSet(runs) : PollRejected(r)
    \/ \E r \in BagToSet(runs) : PollResolved(r)
    \/ \E r \in BagToSet(runs) : TimerFired(r)
    \/ \E r \in BagToSet(runs) : IndexPostRejected(r)
    \/ \E r \in BagToSet(runs) : IndexPostResolved(r)

Spec == Init /\ [][Next]_vars

\* a request in flight is answered and a pending timer fires
Progress ==
    \E r \in BagToSet(runs) :
        \/ TranscriptStartRejected(r) \/ TranscriptStartResolved(r)
        \/ UploadStartRejected(r) \/ UploadStartResolved(r)
        \/ PollRejected(r) \/ PollResolved(r) \/ TimerFired(r)
        \/ IndexPostRejected(r) \/ IndexPostResolved(r)

\* Spec, with every request eventually answered and every timer eventually fired
LiveSpec == Spec /\ WF_vars(Progress)

----------------------------------------------------------------------------
(* Properties *)

Runs == BagToSet(runs)

\* the job that polls was started once: the instance, or the nested
\* TranscriptJob of an IndexJob run (built anew by every IndexJob.start)
StartedOnce == kind = "index" \/ BagCardinality(runs) <= 1

TimeoutError == VideodbError("Job timed out")

\* the last turn handled a status response that is pending / terminal
SawPending ==
    ev.op = "pollResolved" /\ ev.res[1].status \in {in_progress, processing}
SawTerminal ==
    ev.op = "pollResolved" /\ ev.res[1].status \notin {in_progress, processing}

\* 2^n
RECURSIVE Pow2(_)
Pow2(n) == IF n = 0 THEN 1 ELSE 2 * Pow2(n - 1)

\* C1: in every run of every variant the success callback and the error
\* callback are never both called, and neither is called more than once.
C1_ExclusiveCallbacks ==
    \A r \in Runs : r.succN <= 1 /\ r.errN <= 1 /\ ~(r.succN >= 1 /\ r.errN >= 1)

\* C2 as stated: after k consecutive pending observations the wait that is
\* scheduled before the (k+1)-th status poll is d0 * 2^k.
C2_WaitIsD0TimesTwoToK ==
    \A r \in Runs :
        (StartedOnce /\ r.pc = "timer") => r.wait = InitialDelay * Pow2(r.pend)

\* C2 amended: after k consecutive pending observations (k >= 1) the wait
\* that is scheduled before the (k+1)-th status poll is d0 * 2^(k-1); one
\* timer is scheduled per pending observation.
C2_DelaySequence ==
    \A r \in Runs :
        (StartedOnce /\ r.pc = "timer") =>
            /\ r.pend >= 1
            /\ r.timers = r.pend
            /\ r.gets = r.pend
            /\ r.wait = InitialDelay * Pow2(r.pend - 1)

C2_Witness ==
    \E r \in Runs : StartedOnce /\ r.pc = "timer" /\ r.pend = 3 /\ r.wait = 8000

\* C3: a pending observation made while currentDelay >= ceiling schedules no
\* timer and issues no further status GET, ends the chain and hands the
\* error path a VideodbError 'Job timed out'; one made while currentDelay <
\* ceiling schedules a wait of currentDelay and raises no timeout.
C3_TimeoutAtCeiling ==
    SawPending =>
        IF ev.ceiling
        THEN /\ ev.timers = 0 /\ ev.gets = 0
             /\ ev.run[1].pc = "done"
             /\ ev.run[1].timeouts = 1
             /\ ev.he = <<TimeoutError>>
             /\ ev.bs = <<>> /\ ev.succCb = <<>>
        ELSE /\ ev.timers = 1 /\ ev.gets = 0
             /\ ev.run[1].pc = "timer"
             /\ ev.run[1].wait = PollerDelay(ev.run[1])
             /\ ev.run[1].timeouts = 0
             /\ ev.he = <<>> /\ ev.errCb = <<>>
             /\ ev.bs = <<>> /\ ev.succCb = <<>>

C3_Witness ==
    SawPending /\ ev.ceiling /\ ev.he = <<TimeoutError>> /\ ev.run[1].pc = "done"

\* C4: every poll cycle stops with exactly one of success delivered or
\* failure (explicit or timeout) delivered.  As a statement a finite run
\* can refute: the turn that ends a run takes the success outcome or the
\* failure outcome, never both.
C4_ExactlyOneOutcome ==
    (ev.run # <<>> /\ ev.run[1].pc = "done") =>
        LET succeeded == ev.succCb # <<>> \/ (ev.he = <<>> /\ ev.logged = 1)
            failed == ev.he # <<>>
        IN  (succeeded \/ failed) /\ ~(succeeded /\ failed)

\* the poll cycles stop: from some point on no request is in flight and no
\* timer is pending (part of C4; holds under LiveSpec)
PollingStops == <>[](\A r \in Runs : r.pc = "done")

\* how many runs of the instance are at pc
InFlight(pc) ==
    BagCardinality([r \in {q \in Runs : q.pc = pc} |-> CopiesIn(r, runs)])

\* C5: a job instance has at most one status GET in flight and at most one
\* pending poll timer, so a status GET is issued only when the previous poll
\* of the instance has resolved.
C5_SequentialPolls ==
    kind # "index" =>
        /\ InFlight("pollReq") <= 1
        /\ InFlight("timer") <= 1

\* C6: once the job is Completed or Failed (it has run and nothing of it is
\* in flight) no operation returns it to Started: it stays so.
JobTerminal == runs # EmptyBag /\ \A r \in Runs : r.pc = "done"
C6_NoReentry == [][JobTerminal => JobTerminal']_vars

\* C7: a terminal poll response whose envelope has success = false and
\* message x fails the job: _handleError gets a VideodbError with message x,
\* which the registered error callback receives; beforeSuccess is not run
\* and the success callback is not called.
C7_FailureEnvelope ==
    (SawTerminal /\ ev.res[1].response # <<>>
       /\ ev.res[1].response[1].success = FALSE) =>
        LET x == ev.res[1].response[1].message
        IN  /\ ev.he = <<VideodbError(x)>>
            /\ on.error # NoHandler => ev.errCb = <<Call(on.error, VideodbError(x))>>
            /\ on.error = NoHandler => ev.errCb = <<>> /\ ev.logged = 1
            /\ ev.bs = <<>> /\ ev.succCb = <<>> /\ ev.nSuccCb = <<>>
            /\ ev.posts = 0
            /\ ev.run[1].pc = "done" /\ ev.run[1].succN = 0

C7_Witness ==
    /\ SawTerminal /\ ev.res[1].response # <<>>
    /\ ev.res[1].response[1].success = FALSE
    /\ ev.res[1].response[1].message = "y"
    /\ on.error # NoHandler
    /\ ev.errCb = <<Call(on.error, VideodbError("y"))>>

\* C8: for a terminal poll response that is not a failure envelope, the
\* payload (the envelope's data if there is an envelope, else the top-level
\* data) is normalized and given to beforeSuccess, the registered success
\* callback receives beforeSuccess of it, and the error callback is not
\* called.
C8_SuccessPayload ==
    (SawTerminal /\ kind # "index"
       /\ ~(ev.res[1].response # <<>> /\ ev.res[1].response[1].success = FALSE)) =>
        LET res == ev.res[1]
            payload == IF res.response # <<>> THEN res.response[1].data ELSE res.data
            final == BeforeSuccess(kind, FromSnakeToCamel(payload))
        IN  /\ ev.bs = <<FromSnakeToCamel(payload)>>
            /\ (final.thrown = <<>> /\ on.success # NoHandler) =>
                  /\ ev.succCb = <<Call(on.success, final.value[1])>>
                  /\ ev.errCb = <<>>

\* C9: when the nested TranscriptJob of an IndexJob fails, the IndexJob's
\* _handleError gets that failure once, the registered error callback is
\* called exactly once with it, the success callback is not called and the
\* index POST is not issued.
C9_NestedFailureForwarded ==
    (kind = "index" /\ ev.nErrCb # <<>>) =>
        /\ Len(ev.nErrCb) = 1
        /\ ev.he = ev.nErrCb
        /\ on.error # NoHandler =>
              /\ ev.errCb = <<Call(on.error, ev.nErrCb[1])>>
              /\ ev.run[1].errN = 1
        /\ on.error = NoHandler => ev.errCb = <<>> /\ ev.run[1].errN = 0
        /\ ev.succCb = <<>> /\ ev.bs = <<>> /\ ev.nSuccCb = <<>>
        /\ ev.posts = 0
        /\ ev.run[1].pc = "done" /\ ev.run[1].posts = 0 /\ ev.run[1].succN = 0

C9_Witness ==
    /\ kind = "index" /\ ev.nErrCb = <<TimeoutError>>
    /\ on.error # NoHandler
    /\ ev.errCb = <<Call(on.error, TimeoutError)>>

\* C10: no turn ends with the promise of start() rejected or with a dropped
\* promise rejected.
C10_NothingEscapes == ~ev.rejected /\ ~ev.unhandled

\* the option on() was not called with
Other(option) == IF option = "success" THEN "error" ELSE "success"

\* C11: the job holds one success callback and one error callback; on(option,
\* g) puts g in the slot of the option, whatever was there, and leaves the
\* other slot as it was; no other turn changes a slot; a turn that calls a
\* callback calls the one its slot holds, once, so a callback that was
\* replaced before the outcome is never called.
C11_CallbackOverwrite ==
    [][/\ ev'.op = "on" =>
             /\ on'[ev'.reg[1]] = ev'.reg[2]
             /\ ev'.reg[3] = on[ev'.reg[1]]
             /\ on'[Other(ev'.reg[1])] = on[Other(ev'.reg[1])]
             /\ ev'.succCb = <<>> /\ ev'.errCb = <<>>
       /\ ev'.op # "on" => on' = on
       /\ \A i \in 1..Len(ev'.succCb) :
             ev'.succCb[i].by = on.success /\ on.success # NoHandler
       /\ \A i \in 1..Len(ev'.errCb) :
             ev'.errCb[i].by = on.error /\ on.error # NoHandler
       /\ Len(ev'.succCb) <= 1 /\ Len(ev'.errCb) <= 1]_vars

\* on('success', g) has replaced f
C11_Witness ==
    ev.op = "on" /\ ev.reg = <<"success", "g", "f">> /\ on.success = "g"

\* C12: when the transcription GET of a TranscriptJob resolves with the
\* transcript (a payload without output_url), that turn of start() runs the
\* success path on it: beforeSuccess gets the normalized payload and the
\* registered success callback its result; the run ends there with no
\* status GET issued, no timer scheduled and the delay as it was.  When it
\* resolves with an output_url, the turn issues the first status GET to
\* that path and delivers nothing.
C12_ImmediateCompletion ==
    [][(kind = "transcript" /\ ev'.op = "startResolved"
          /\ ev'.res[1].data # Undefined) =>
          LET res == ev'.res[1]
              payload == FromSnakeToCamel(res.data)
          IN  /\ currentDelaySeconds' = currentDelaySeconds
              /\ ev'.timers = 0
              /\ IF res.output_url = <<>>
                 THEN /\ ev'.bs = <<payload>>
                      /\ on.success # NoHandler =>
                            ev'.succCb = <<Call(on.success, payload)>>
                      /\ on.success = NoHandler =>
                            ev'.succCb = <<>> /\ ev'.logged = 1
                      /\ ev'.gets = 0
                      /\ ev'.run[1].pc = "done"
                 ELSE /\ ev'.gets = 1
                      /\ ev'.run[1].pc = "pollReq"
                      /\ ev'.run[1].url = res.output_url[1]
                      /\ ev'.bs = <<>> /\ ev'.succCb = <<>>
                      /\ ev'.he = <<>> /\ ev'.errCb = <<>>
                      /\ ev'.logged = 0]_vars

C12_Witness ==
    /\ kind = "transcript" /\ ev.op = "startResolved"
    /\ ev.res[1].output_url = <<>> /\ ev.res[1].data = Video
    /\ ev.succCb # <<>> /\ ev.gets = 0 /\ ev.run[1].pc = "done"

\* C13: each time _handleError is entered while an error callback is
\* registered, that callback is called exactly once: with the error itself
\* when it is an AuthenticationError, an InvalidRequestError or a
\* VideodbError, and otherwise with a new VideodbError 'Unknown Error'
\* whose cause is the original value.  Without a failure it is not called.
C13_ErrorClassification ==
    /\ ev.he = <<>> => ev.errCb = <<>>
    /\ on.error = NoHandler => ev.errCb = <<>>
    /\ (ev.he # <<>> /\ on.error # NoHandler) =>
          /\ Len(ev.errCb) = Len(ev.he)
          /\ \A i \in 1..Len(ev.he) :
                LET err == ev.he[i]
                IN  /\ ev.errCb[i].by = on.error
                    /\ ev.errCb[i].arg =
                          IF err.cls \in {"AuthenticationError",
                                          "InvalidRequestError", "VideodbError"}
                          THEN err
                          ELSE [cls |-> "VideodbError", msg |-> "Unknown Error",
                                cause |-> <<err>>]

\* a rejected request's plain Error reaches the callback wrapped
C13_Witness ==
    /\ on.error # NoHandler
    /\ ev.he = <<Err("Error", "request failed", <<>>)>>
    /\ ev.errCb = <<Call(on.error, Err("VideodbError", "Unknown Error",
                                        <<Err("Error", "request failed", <<>>)>>))>>

\* C14: a callback is called only in the turn that reaches the outcome and
\* only if it is registered then: an outcome reached with its slot empty is
\* logged once and nothing is called for it; on() calls no callback, logs
\* nothing and touches no run; a run that has ended stays as it ended, so
\* no later turn delivers its outcome.
C14_NoReplay ==
    [][/\ ev'.op = "on" =>
             /\ ev'.succCb = <<>> /\ ev'.errCb = <<>> /\ ev'.logged = 0
             /\ ev'.he = <<>> /\ ev'.bs = <<>>
             /\ runs' = runs
       /\ on.success = NoHandler => ev'.succCb = <<>>
       /\ on.error = NoHandler => ev'.errCb = <<>>
       /\ (on.success = NoHandler /\ ev'.bs # <<>> /\ ev'.he = <<>>) =>
             ev'.logged = 1
       /\ (on.error = NoHandler /\ ev'.he # <<>>) => ev'.logged = 1
       /\ (ev'.succCb # <<>> \/ ev'.errCb # <<>>) =>
             /\ ev'.run # <<>> /\ ev'.run[1].pc = "done"
             /\ \E r \in BagToSet(runs) :
                   r.pc # "done" /\ CopiesIn(r, runs') < CopiesIn(r, runs)
       /\ \A r \in BagToSet(runs) :
             r.pc = "done" => CopiesIn(r, runs') >= CopiesIn(r, runs)]_vars

\* a run ended while both slots were empty; on('success', f) comes after
\* it and calls nothing
C14_Witness ==
    /\ ev.op = "on" /\ ev.reg = <<"success", "f", NoHandler>>
    /\ on.error = NoHandler
    /\ \E r \in Runs : r.pc = "done" /\ r.succN = 0 /\ r.errN = 0
    /\ ev.succCb = <<>>

\* C15: a call of UploadJob.start puts one upload POST in flight and no turn
\* puts another; the turn that handles the POST's response (carrying its
\* payload) issues the first status GET to the output_url of it and delivers
\* nothing; the turn that handles the POST's rejection issues no status GET
\* and ends the run; beforeSuccess and the success callback are called
\* only in a turn that handles a terminal status response.
C15_UploadAlwaysPolls ==
    [][kind = "upload" =>
        /\ InFlight("startReq")' =
              InFlight("startReq")
                + (IF ev'.op = "start" THEN 1 ELSE 0)
                - (IF ev'.op \in {"startResolved", "startRejected"} THEN 1 ELSE 0)
        /\ (ev'.op = "startResolved" /\ ev'.res[1].data # Undefined) =>
              /\ ev'.gets = 1
              /\ ev'.run[1].pc = "pollReq"
              /\ ev'.run[1].url = ev'.res[1].output_url[1]
              /\ ev'.he = <<>> /\ ev'.errCb = <<>> /\ ev'.logged = 0
        /\ ev'.op = "startRejected" =>
              /\ ev'.gets = 0 /\ ev'.timers = 0
              /\ ev'.run[1].pc = "done"
              /\ ev'.he # <<>>
        /\ (ev'.bs # <<>> \/ ev'.succCb # <<>>) =>
              /\ ev'.op = "pollResolved"
              /\ ~IsPending(ev'.res[1].status)
              /\ \E r \in BagToSet(runs) :
                    r.pc = "pollReq" /\ r.gets >= 1
                      /\ CopiesIn(r, runs') < CopiesIn(r, runs)]_vars

C15_Witness ==
    /\ kind = "upload" /\ ev.op = "startResolved"
    /\ ev.res[1].data # Undefined
    /\ ev.gets = 1 /\ ev.run[1].pc = "pollReq"
    /\ ev.run[1].url = ev.res[1].output_url[1]

\* C16: an IndexJob issues its index POST only in the turn in which its
\* nested TranscriptJob delivers success (the transcription GET resolved
\* without output_url, or a status GET resolved terminal and not failed),
\* and at most once per start(); the IndexJob's own code (start up to its
\* await, the turns after the POST, on) issues no status GET and schedules
\* no timer; the IndexJob's currentDelaySeconds is the initial value in
\* every reachable state, whatever the nested job's delay has become.
C16_IndexDelegation ==
    kind = "index" =>
        /\ currentDelaySeconds = InitialDelay
        /\ \A r \in Runs :
              /\ r.posts <= 1
              /\ r.pc = "indexPost" => r.posts = 1
              /\ r.pc \in {"startReq", "pollReq", "timer"} => r.posts = 0
        /\ Len(ev.nSuccCb) <= 1
        /\ ev.posts = Len(ev.nSuccCb)
        /\ ev.posts = 1 =>
              /\ ev.run[1].pc = "indexPost"
              /\ \/ ev.op = "startResolved" /\ ev.res[1].output_url = <<>>
                 \/ /\ ev.op = "pollResolved"
                    /\ ~IsPending(ev.res[1].status)
                    /\ ~(ev.res[1].response # <<>>
                           /\ ev.res[1].response[1].success = FALSE)
              /\ ev.nErrCb = <<>> /\ ev.he = <<>>
        /\ ev.op \in {"new", "on", "start", "postResolved", "postRejected"} =>
              ev.gets = 0 /\ ev.timers = 0 /\ ev.posts = 0

\* the nested job polled through a timer, then delivered success: the POST
\* is issued and the IndexJob's own delay is still the initial one
C16_Witness ==
    /\ kind = "index" /\ ev.op = "pollResolved" /\ ev.posts = 1
    /\ ev.run[1].pc = "indexPost"
    /\ ev.run[1].nDelay > InitialDelay
    /\ currentDelaySeconds = InitialDelay

\* the last turn ran beforeSuccess and it raised
FinalizationThrew ==
    ev.bs # <<>> /\ BeforeSuccess(kind, ev.bs[1]).thrown # <<>>

\* C17 as stated: when beforeSuccess raises while a terminal response is
\* being delivered, the exception is not routed to _handleError and the
\* error callback is not called for it.
C17_FinalizationUnguarded ==
    FinalizationThrew => ev.he = <<>> /\ ev.errCb = <<>>

\* C17 amended: when beforeSuccess raises while a terminal response is being
\* delivered, the try around _handleSuccess catches the exception and hands
\* it to _handleError: the success callback is not called, the run ends as
\* failed, a registered error callback gets a VideodbError 'Unknown Error'
\* whose cause is the exception (without one the error is logged), and the
\* exception itself escapes to no promise.
C17_FinalizationRouted ==
    FinalizationThrew =>
        LET exception == BeforeSuccess(kind, ev.bs[1]).thrown[1]
        IN  /\ ev.he = <<exception>>
            /\ ev.succCb = <<>>
            /\ ev.run[1].pc = "done" /\ ev.run[1].succN = 0
            /\ on.error # NoHandler =>
                  ev.errCb = <<Call(on.error,
                                    Err("VideodbError", "Unknown Error", <<exception>>))>>
            /\ on.error = NoHandler =>
                  /\ ev.errCb = <<>> /\ ev.logged = 1
                  /\ ~ev.rejected /\ ~ev.unhandled

\* an UploadJob's terminal response without a payload: building the media
\* object raises a TypeError, which the error callback receives wrapped
C17_Witness ==
    /\ kind = "upload" /\ SawTerminal
    /\ ev.bs = <<Undefined>> /\ ev.he = <<TypeError>>
    /\ on.error # NoHandler
    /\ ev.errCb = <<Call(on.error, Err("VideodbError", "Unknown Error", <<TypeError>>))>>

\* C18: a status response with status in_progress or processing is pending,
\* with or without an envelope: below the ceiling the turn schedules the
\* next poll and enters neither the error path nor the success path.  A
\* response with any other status ends the poll chain in that turn (no
\* timer, no further status GET); it takes the failure branch, a
\* VideodbError with the envelope's message, exactly when it carries an
\* envelope with success = false, and otherwise the success path is
\* entered with its payload, whatever the status says.
C18_PollClassification ==
    ev.op = "pollResolved" =>
        LET res == ev.res[1]
            failed == res.response # <<>> /\ res.response[1].success = FALSE
            payload == IF res.response # <<>> THEN res.response[1].data ELSE res.data
        IN  IF res.status \in {"in_progress", "processing"}
            THEN /\ ev.bs = <<>> /\ ev.succCb = <<>> /\ ev.nSuccCb = <<>>
                 /\ ev.posts = 0
                 /\ ~ev.ceiling =>
                       /\ ev.he = <<>> /\ ev.errCb = <<>> /\ ev.nErrCb = <<>>
                       /\ ev.logged = 0
                       /\ ev.timers = 1 /\ ev.run[1].pc = "timer"
            ELSE /\ ev.timers = 0 /\ ev.gets = 0
                 /\ ev.run[1].pc \in {"done", "indexPost"}
                 /\ ev.run[1].timeouts = 0
                 /\ IF failed
                    THEN /\ ev.he = <<VideodbError(res.response[1].message)>>
                         /\ ev.bs = <<>> /\ ev.succCb = <<>> /\ ev.nSuccCb = <<>>
                    ELSE IF kind = "index"
                         THEN /\ ev.nSuccCb = <<FromSnakeToCamel(payload)>>
                              /\ ev.nErrCb = <<>> /\ ev.he = <<>>
                         ELSE /\ ev.bs = <<FromSnakeToCamel(payload)>>
                              /\ ev.he # <<>> => ev.he[1] \in {CallbackError, TypeError}

\* a pending status wins over a failure envelope in the same response
C18_Witness ==
    /\ SawPending /\ ev.res[1].response # <<>>
    /\ ev.res[1].response[1].success = FALSE
    /\ ~ev.ceiling
    /\ ev.run[1].pc = "timer" /\ ev.he = <<>> /\ ev.errCb = <<>>

\* the delays a job started once goes through: 2000 * 2^k for k in 0..8
BackoffDelays == {InitialDelay * Pow2(k) : k \in 0..8}

\* what C19 says of a state
BackoffBounded ==
    /\ currentDelaySeconds \in BackoffDelays
    /\ currentDelaySeconds <= 512000
    /\ \A r \in Runs :
          r.pc # "done" =>
              /\ PollerDelay(r) \in BackoffDelays
              /\ r.timers <= 8 /\ r.gets <= 9 /\ r.pend <= 8
              /\ r.timeouts = 0
              /\ r.pc = "pollReq" =>
                    /\ r.gets = r.pend + 1 /\ r.timers = r.pend
                    /\ PollerDelay(r) = InitialDelay * Pow2(r.pend)
              /\ r.pc = "timer" =>
                    /\ r.gets = r.pend /\ r.timers = r.pend
                    /\ PollerDelay(r) = InitialDelay * Pow2(r.pend - 1)

\* C19: while the polling job has been started at most once, the delay is
\* one of 2000 * 2^k, k in 0..8 (never above 512000); it changes only in
\* the turn of a fired poll timer, which doubles it; a run schedules at
\* most 8 timers and issues at most 9 status GETs; and a pending
\* observation ends in 'Job timed out' exactly when it is the 9th of the
\* run (8 were made before it).
C19_BoundedBackoff ==
    [][StartedOnce' =>
        /\ BackoffBounded'
        /\ currentDelaySeconds' # currentDelaySeconds =>
              /\ ev'.op = "timerFired"
              /\ currentDelaySeconds' = 2 * currentDelaySeconds
        /\ (ev'.op = "timerFired" /\ kind # "index") =>
              currentDelaySeconds' = 2 * currentDelaySeconds
        /\ (ev'.op = "timerFired" /\ kind = "index") =>
              \E r \in BagToSet(runs) :
                  /\ r.pc = "timer" /\ CopiesIn(r, runs') < CopiesIn(r, runs)
                  /\ ev'.run[1].nDelay = 2 * r.nDelay
        /\ (ev'.op # "timerFired" /\ ev'.run # <<>> /\ ev'.run[1].pc # "done") =>
              \E r \in BagToSet(runs) :
                  /\ CopiesIn(r, runs') < CopiesIn(r, runs)
                  /\ ev'.run[1].nDelay = r.nDelay
        /\ (ev'.op = "pollResolved"
              /\ ev'.res[1].status \in {in_progress, processing}) =>
              \E r \in BagToSet(runs) :
                  /\ r.pc = "pollReq" /\ CopiesIn(r, runs') < CopiesIn(r, runs)
                  /\ (ev'.he = <<TimeoutError>>) = (r.pend = 8)
                  /\ (ev'.run[1].timeouts = 1) = (r.pend = 8)
                  /\ (ev'.timers = 1) = (r.pend < 8)]_vars

\* the 9th pending observation of a job started once: the delay has been
\* doubled 8 times and the run ends in 'Job timed out'
C19_Witness ==
    /\ kind # "index" /\ StartedOnce
    /\ SawPending /\ ev.he = <<TimeoutError>>
    /\ currentDelaySeconds = 512000
    /\ ev.run[1].pc = "done" /\ ev.run[1].timeouts = 1

\* a run of the instance has ended in 'Job timed out'
HasTimedOut == \E r \in Runs : r.timeouts >= 1

\* C20 as stated: currentDelaySeconds never decreases and never returns to
\* its initial value, and a job instance that has timed out fails with 'Job
\* timed out' at the first pending observation of a new start(), without
\* scheduling a wait.
C20_StickyTimeout ==
    [][/\ currentDelaySeconds' >= currentDelaySeconds
       /\ currentDelaySeconds' = InitialDelay => currentDelaySeconds = InitialDelay
       /\ (HasTimedOut /\ ev'.op = "pollResolved"
             /\ ev'.res[1].status \in {in_progress, processing}) =>
             /\ ev'.he = <<TimeoutError>>
             /\ ev'.timers = 0]_vars

\* C20 amended: in every step, repeated start() included,
\* currentDelaySeconds does not decrease and does not return to its initial
\* value; only a fired timer changes it (on, start, the turns that deliver
\* success, failure or the timeout leave it alone).  So once a TranscriptJob
\* or UploadJob instance has timed out, every pending observation it makes
\* afterwards, the first one of a new start() included, ends in 'Job timed
\* out' with no wait scheduled.  An IndexJob polls through a TranscriptJob
\* built anew by each start(): the first pending observation of each of its
\* runs schedules a wait of the initial delay, whatever earlier runs did.
C20_DelayNeverReset ==
    [][/\ currentDelaySeconds' >= currentDelaySeconds
       /\ currentDelaySeconds' = InitialDelay => currentDelaySeconds = InitialDelay
       /\ ev'.op # "timerFired" => currentDelaySeconds' = currentDelaySeconds
       /\ (ev'.run # <<>> /\ ev'.run[1].pc # "done") =>
             \E r \in BagToSet(runs) :
                 /\ CopiesIn(r, runs') < CopiesIn(r, runs)
                 /\ ev'.run[1].nDelay >= r.nDelay
       /\ (kind # "index" /\ HasTimedOut) =>
             /\ currentDelaySeconds >= MaxDelay
             /\ (ev'.op = "pollResolved"
                   /\ ev'.res[1].status \in {in_progress, processing}) =>
                   /\ ev'.he = <<TimeoutError>>
                   /\ ev'.timers = 0 /\ ev'.gets = 0
                   /\ ev'.run[1].pc = "done" /\ ev'.run[1].timeouts = 1
                   /\ ev'.bs = <<>> /\ ev'.succCb = <<>>
       /\ (kind = "index" /\ ev'.op = "pollResolved"
             /\ ev'.res[1].status \in {in_progress, processing}
             /\ ev'.run[1].pend = 1) =>
             /\ ev'.timers = 1 /\ ev'.run[1].pc = "timer"
             /\ ev'.run[1].wait = InitialDelay
             /\ ev'.he = <<>> /\ ev'.errCb = <<>>]_vars

\* an instance that had timed out was started again and has timed out again
C20_Witness ==
    /\ kind # "index" /\ BagCardinality(runs) = 2
    /\ \A r \in Runs : r.pc = "done" /\ r.timeouts = 1
    /\ SawPending /\ ev.he = <<TimeoutError>> /\ ev.timers = 0
    /\ currentDelaySeconds = 512000

====
